---- MODULE Spec2Model ----
(***************************************************************************)
(* Tool routing and confirmation policy of the Cloud Engineer agent, as    *)
(* written in SYSTEM_PROMPT_TEMPLATE (src/prompts/cloud_engineer/          *)
(* system_prompt.py).  Text is modelled as sequences of one-character      *)
(* strings so that letter case, quoting and extra text are observable.     *)
(***************************************************************************)
EXTENDS Integers, Sequences, FiniteSets, TLC

\* ------------------------------------------------------------------ bounds
NumResources == 3
MaxTasks == 4
MaxBatch == 3

\* -------------------------------------------------------------------- text
LowerAlpha == <<"a","b","c","d","e","f","g","h","i","j","k","l","m",
                "n","o","p","q","r","s","t","u","v","w","x","y","z">>
UpperAlpha == <<"A","B","C","D","E","F","G","H","I","J","K","L","M",
                "N","O","P","Q","R","S","T","U","V","W","X","Y","Z">>
DigitChar == <<"0","1","2","3","4","5","6","7","8","9">>

ToUpperChar(c) ==
    IF \E i \in 1..Len(LowerAlpha) : LowerAlpha[i] = c
    THEN UpperAlpha[CHOOSE i \in 1..Len(LowerAlpha) : LowerAlpha[i] = c]
    ELSE c

ToLowerChar(c) ==
    IF \E i \in 1..Len(UpperAlpha) : UpperAlpha[i] = c
    THEN LowerAlpha[CHOOSE i \in 1..Len(UpperAlpha) : UpperAlpha[i] = c]
    ELSE c

UpperCase(s) == [i \in 1..Len(s) |-> ToUpperChar(s[i])]
LowerCase(s) == [i \in 1..Len(s) |-> ToLowerChar(s[i])]

RECURSIVE Decimal(_)
Decimal(n) ==
    IF n < 10 THEN <<DigitChar[n + 1]>>
    ELSE Decimal(n \div 10) \o <<DigitChar[(n % 10) + 1]>>

SP == <<" ">>
DQ == <<"\"">>
DELETE_WORD == <<"D","E","L","E","T","E">>
STOP_WORD == <<"S","T","O","P">>
TERMINATE_WORD == <<"T","E","R","M","I","N","A","T","E">>
BULK_WORD == <<"B","U","L","K">>
RESOURCES_WORD == <<"R","E","S","O","U","R","C","E","S">>
YES_TEXT == <<"y","e","s">>
CANCEL_TEXT == <<"c","a","n","c","e","l">>
BULK_DELETE_TEXT == BULK_WORD \o SP \o DELETE_WORD
RISK_TOKEN == <<"I"," ","U","N","D","E","R","S","T","A","N","D"," ",
                "T","H","E"," ","R","I","S","K">>

\* --------------------------------------------------------------- resources
Resources == 1..NumResources

NamePool == << <<"W","e","b">>, <<"P"," ","D","B">> >>
TypePool == << "EC2", "S3", "RDS", "RDS", "Logs" >>

NameOf(r) == NamePool[((r - 1) % Len(NamePool)) + 1]
TypeOf(r) == TypePool[((r - 1) % Len(TypePool)) + 1]

TierOf(r) ==
    CASE TypeOf(r) = "RDS" -> "CRITICAL"
      [] TypeOf(r) = "EC2" -> "HIGH"
      [] TypeOf(r) = "S3" -> "MEDIUM"
      [] OTHER -> "LOW"

\* ------------------------------------------------------ operation classes
OperationClass ==
    {"READ", "MUTATE_CREATE", "MUTATE_UPDATE", "STATE_CHANGE_LOW",
     "STATE_CHANGE_MEDIUM", "STATE_CHANGE_HIGH", "MUTATE_DELETE",
     "COST_QUERY", "DOC_QUERY", "DIAGRAM_DESIGN", "DIAGRAM_ANALYSIS"}

DeleteEquivalent == {"MUTATE_DELETE", "STATE_CHANGE_HIGH"}
Destructive == DeleteEquivalent \cup {"STATE_CHANGE_MEDIUM"}
MutationClasses == {"MUTATE_CREATE", "MUTATE_UPDATE", "MUTATE_DELETE"}
YesGated == {"MUTATE_CREATE", "MUTATE_UPDATE", "STATE_CHANGE_LOW"}
Gated == Destructive \cup YesGated
Ungated == OperationClass \ Gated

Capability ==
    {"use_aws", "create_resource", "update_resource", "delete_resource",
     "docs_mcp", "cost_explorer_mcp", "aws_diagram_mcp"}


\* Variant: state changes also bound to the mutation engine.
MatrixWithSecondBinding ==
    { <<"READ", "use_aws">>,
      <<"MUTATE_CREATE", "create_resource">>,
      <<"MUTATE_UPDATE", "update_resource">>,
      <<"MUTATE_DELETE", "delete_resource">>,
      <<"STATE_CHANGE_LOW", "use_aws">>,
      <<"STATE_CHANGE_LOW", "update_resource">>,
      <<"STATE_CHANGE_MEDIUM", "use_aws">>,
      <<"STATE_CHANGE_HIGH", "delete_resource">>,
      <<"COST_QUERY", "cost_explorer_mcp">>,
      <<"DOC_QUERY", "docs_mcp">>,
      <<"DIAGRAM_DESIGN", "aws_diagram_mcp">>,
      <<"DIAGRAM_ANALYSIS", "aws_diagram_mcp">> }

\* The tool each section of the prompt mandates for an operation class.
ToolSelectionMatrix ==
    { <<"READ", "use_aws">>,
      <<"MUTATE_CREATE", "create_resource">>,
      <<"MUTATE_UPDATE", "update_resource">>,
      <<"MUTATE_DELETE", "delete_resource">>,
      <<"STATE_CHANGE_LOW", "use_aws">>,
      <<"STATE_CHANGE_MEDIUM", "use_aws">>,
      <<"STATE_CHANGE_HIGH", "delete_resource">>,
      <<"COST_QUERY", "cost_explorer_mcp">>,
      <<"DOC_QUERY", "docs_mcp">>,
      <<"DIAGRAM_DESIGN", "aws_diagram_mcp">>,
      <<"DIAGRAM_ANALYSIS", "aws_diagram_mcp">> }

BoundCapabilities(cls) == {cap \in Capability : <<cls, cap>> \in ToolSelectionMatrix}

route(cls) == CHOOSE cap \in Capability : <<cls, cap>> \in ToolSelectionMatrix


\* Variant: the attempted tool is used as it comes.
EnforceNothing(cls, attempted) == attempted

\* TOOL VIOLATION RESPONSE PROTOCOL: an attempt through a tool the class is
\* not bound to is switched to the bound tool before the call goes out.
EnforceBinding(cls, attempted) ==
    IF attempted = route(cls) THEN attempted ELSE route(cls)

Call(cls, target, attempted) ==
    [cls |-> cls, cap |-> EnforceBinding(cls, attempted), target |-> target,
     violation |-> attempted # route(cls)]

\* ------------------------------------------------------ confirmation tokens
HasSpace(name) == \E i \in 1..Len(name) : name[i] = " "
Quoted(name) == DQ \o name \o DQ


\* Variant: the name is never quoted.
NameUnquoted(name) == name

\* DELETION CONFIRMATION PROTOCOL item 10: names with spaces go in quotes.
NameInToken(name) == IF HasSpace(name) THEN Quoted(name) ELSE name

DeleteToken(r) == DELETE_WORD \o SP \o NameInToken(NameOf(r))
TerminateToken(r) == TERMINATE_WORD \o SP \o NameInToken(NameOf(r))
StopToken(r) == STOP_WORD \o SP \o NameOf(r)
BulkToken(n) == BULK_DELETE_TEXT \o SP \o Decimal(n) \o SP \o RESOURCES_WORD

RequiredTokens(cls, r) ==
    CASE cls = "MUTATE_DELETE" -> {DeleteToken(r)}
      [] cls = "STATE_CHANGE_HIGH" -> {DeleteToken(r), TerminateToken(r)}
      [] cls = "STATE_CHANGE_MEDIUM" -> {StopToken(r)}
      [] OTHER -> {YES_TEXT}


\* Variant: letter case is ignored and a leading part of the token is enough.
MatchesLoosely(cls, r, text) ==
    \E t \in RequiredTokens(cls, r) :
        \/ UpperCase(text) = UpperCase(t)
        \/ Len(text) > Len(t) /\ SubSeq(text, 1, Len(t)) = t

\* STATE CHANGE CONFIRMATION VALIDATION / DELETION CONFIRMATION PROTOCOL 5-8.
Matches(cls, r, text) ==
    IF cls = "STATE_CHANGE_LOW"
    THEN LowerCase(text) = YES_TEXT
    ELSE text \in RequiredTokens(cls, r)


\* Variant: any count is accepted.
BulkMatchesAnyCount(members, text) == \E n \in 0..99 : text = BulkToken(n)

BulkMatches(members, text) == text = BulkToken(Cardinality(members))


\* Variant: no resource needs the risk acknowledgment.
NeverNeedsRiskAck(cls, r) == FALSE

NeedsRiskAck(cls, r) == cls \in DeleteEquivalent /\ TierOf(r) = "CRITICAL"
BulkNeedsRiskAck(members) == \E r \in members : TierOf(r) = "CRITICAL"

\* ---------------------------------------------------------- user replies
Front(s) == SubSeq(s, 1, Len(s) - 1)

NameVariants(name) == {name, LowerCase(name), Front(name)}

\* What a user may type near a "<VERB> <name>" token: the verb or the name
\* in another case, part of the name missing, quotes present or absent,
\* text before or after.
NearTokens(verb, name) ==
    {v \o SP \o form : v \in {verb, LowerCase(verb)},
                       form \in NameVariants(name) \cup
                                {Quoted(n) : n \in NameVariants(name)}}
    \cup {verb \o SP \o NameInToken(name) \o <<" ", "x">>,
          <<"x", " ">> \o verb \o SP \o NameInToken(name)}

VerbsOf(cls) ==
    CASE cls = "MUTATE_DELETE" -> {DELETE_WORD}
      [] cls = "STATE_CHANGE_HIGH" -> {DELETE_WORD, TERMINATE_WORD}
      [] cls = "STATE_CHANGE_MEDIUM" -> {STOP_WORD}
      [] OTHER -> {}

GenericReplies ==
    {YES_TEXT, UpperCase(YES_TEXT), <<"n", "o">>, CANCEL_TEXT,
     RISK_TOKEN, LowerCase(RISK_TOKEN), BULK_DELETE_TEXT}
    \cup {DeleteToken(r) : r \in Resources}
    \cup {StopToken(r) : r \in Resources}
    \cup {TerminateToken(r) : r \in Resources}

BulkReplies ==
    {BulkToken(n) : n \in 0..(NumResources + 1)}
    \cup {LowerCase(BulkToken(n)) : n \in 1..NumResources}
    \cup {Front(BulkToken(n)) : n \in 1..NumResources}
    \cup {BulkToken(n) \o <<" ", "x">> : n \in 1..NumResources}

RepliesFor(cls, r) ==
    GenericReplies
    \cup UNION {NearTokens(v, NameOf(r)) : v \in VerbsOf(cls)}

\* ------------------------------------------------------------------ state
VARIABLES alive, mode, batch, queue, gate, bulkGate, calls, consumed

vars == <<alive, mode, batch, queue, gate, bulkGate, calls, consumed>>

\* State of the other components of the agent.  Each component has its own
\* specification below; a step of one component leaves the others alone.
VARIABLES RESOLVED_AWS_REGION, userRegion, regionCalls
VARIABLES request, multiTask, planPhase, dispatched, presented, continuation,
          planTurn
VARIABLES createList, createStatus
VARIABLES attempts, lastError, callState, now, failedAt, retryingSince
VARIABLES delQueue, delStatus, delCalls
VARIABLES pc, environment, clients, mcp_initialized
VARIABLES messages, running, response
VARIABLES issued, wallClock
VARIABLES query, opClass, tier, outline, invoked, stage
VARIABLES actual, cache, readThisTurn, confirmationPrompt
VARIABLES chatMessages, rendered, turnFailed
VARIABLES session_state, sent, browserClock, generatedBy

regionVars == <<RESOLVED_AWS_REGION, userRegion, regionCalls>>
planVars ==
    <<request, multiTask, planPhase, dispatched, presented, continuation,
      planTurn>>
createVars == <<createList, createStatus>>
retryVars == <<attempts, lastError, callState, now, failedAt, retryingSince>>
deleteVars == <<delQueue, delStatus, delCalls>>
startupVars == <<pc, environment, clients, mcp_initialized>>
runtimeVars == <<messages, running, response>>
sessionIdVars == <<issued, wallClock>>
tierVars == <<query, opClass, tier, outline, invoked, stage>>
cacheVars == <<actual, cache, readThisTurn, confirmationPrompt>>
chatVars == <<chatMessages, rendered, turnFailed>>
frontendVars == <<session_state, sent, browserClock, generatedBy>>

allVars ==
    <<vars, regionVars, planVars, createVars, retryVars, deleteVars,
      startupVars, runtimeVars, sessionIdVars,
      tierVars,
      cacheVars,
      chatVars,
      frontendVars>>

outsideGate ==
    <<regionVars, planVars, createVars, retryVars, deleteVars, startupVars,
      runtimeVars, sessionIdVars,
      tierVars,
      cacheVars,
      chatVars,
      frontendVars>>

\* The state of each component before it has done anything.
RegionInit ==
    /\ RESOLVED_AWS_REGION = "UNSET"
    /\ userRegion = "NO_TURN"
    /\ regionCalls = {}

PlanInit ==
    /\ request = [verbs |-> <<>>, list |-> FALSE, estimate |-> 0]
    /\ multiTask = FALSE
    /\ planPhase = "idle"
    /\ dispatched = <<>>
    /\ presented = FALSE
    /\ continuation = {}
    /\ planTurn = 0

CreateInit ==
    /\ createList = <<>>
    /\ createStatus = <<>>

RetryInit ==
    /\ attempts = 0
    /\ lastError = "none"
    /\ callState = "idle"
    /\ now = 0
    /\ failedAt = 0
    /\ retryingSince = 0

DeleteInit ==
    /\ delQueue = <<>>
    /\ delStatus = <<>>
    /\ delCalls = {}

StartupInit ==
    /\ pc = "not_imported"
    /\ environment = [platform |-> "unknown", failing |-> {}]
    /\ clients = <<>>
    /\ mcp_initialized = "undefined"

RuntimeInit ==
    /\ messages = <<>>
    /\ running = {}
    /\ response = <<>>

SessionIdInit ==
    /\ issued = <<>>
    /\ wallClock = 0

TierInit ==
    /\ query = {}
    /\ opClass = "NONE"
    /\ tier = "NONE"
    /\ outline = [recommendations |-> 0, categories |-> 0, sections |-> {}]
    /\ invoked = {}
    /\ stage = "idle"

CacheInit ==
    /\ actual = [r \in {"i-web", "vol-data"} |-> "running"]
    /\ cache = [r \in {"i-web", "vol-data"} |-> "none"]
    /\ readThisTurn = {}
    /\ confirmationPrompt = [target |-> "none", shown |-> "none", fresh |-> FALSE]

ChatInit ==
    /\ chatMessages = <<>>
    /\ rendered = "nothing"
    /\ turnFailed = FALSE

FrontendInit ==
    /\ session_state = [authenticated |-> FALSE, user_id |-> <<>>,
                        access_token |-> <<>>, messages |-> <<>>,
                        runtime_session_id |-> <<>>]
    /\ sent = [session_id |-> <<>>, access_token |-> <<>>, user_id |-> <<>>]
    /\ browserClock = 0
    /\ generatedBy = {}

ComponentsInit ==
    /\ RegionInit /\ PlanInit /\ CreateInit /\ RetryInit /\ DeleteInit
    /\ StartupInit /\ RuntimeInit /\ SessionIdInit
    /\ TierInit
    /\ CacheInit
    /\ ChatInit
    /\ FrontendInit

NoText == <<>>
NoRecord == [state |-> "NONE", cls |-> "READ", received |-> NoText, ack |-> FALSE]
NoBulk == [state |-> "NONE", cls |-> "READ", received |-> NoText, ack |-> FALSE]
NothingConsumed == NoText

GateStates ==
    {"NONE", "PROPOSED", "AWAITING_CONFIRMATION", "CONFIRMED", "CANCELLED",
     "REJECTED_MISMATCH"}

Proposed(cls) ==
    [state |-> "PROPOSED", cls |-> cls, received |-> NoText, ack |-> FALSE]

RECURSIVE SeqOfSet(_)
SeqOfSet(S) ==
    IF S = {} THEN <<>>
    ELSE LET m == CHOOSE x \in S : \A y \in S : x <= y
         IN <<m>> \o SeqOfSet(S \ {m})

Init ==
    /\ alive = Resources
    /\ mode = "idle"
    /\ batch = {}
    /\ queue = <<>>
    /\ gate = [r \in Resources |-> NoRecord]
    /\ bulkGate = NoBulk
    /\ calls = {}
    /\ consumed = NothingConsumed
    /\ ComponentsInit

\* ------------------------------------------------------------- the gate

\* Variant: whatever is replied confirms.
EvaluateReplyAcceptingAll(rec, r, text) ==
    [rec EXCEPT !.state = "CONFIRMED", !.received = text]

\* One reply evaluated against one pending record (ConfirmationRecord).
EvaluateReply(rec, r, text) ==
    IF text = CANCEL_TEXT
    THEN [rec EXCEPT !.state = "CANCELLED", !.received = text]
    ELSE IF NeedsRiskAck(rec.cls, r) /\ ~rec.ack
    THEN IF text = RISK_TOKEN
         THEN [rec EXCEPT !.ack = TRUE]
         ELSE [rec EXCEPT !.state = "REJECTED_MISMATCH", !.received = text]
    ELSE IF Matches(rec.cls, r, text)
    THEN [rec EXCEPT !.state = "CONFIRMED", !.received = text]
    ELSE [rec EXCEPT !.state = "REJECTED_MISMATCH", !.received = text]

\* The bulk batch has its own record and its own count-bearing token.
EvaluateBulkReply(rec, members, text) ==
    IF text = CANCEL_TEXT
    THEN [rec EXCEPT !.state = "CANCELLED", !.received = text]
    ELSE IF BulkNeedsRiskAck(members) /\ ~rec.ack
    THEN IF text = RISK_TOKEN
         THEN [rec EXCEPT !.ack = TRUE]
         ELSE [rec EXCEPT !.state = "REJECTED_MISMATCH", !.received = text]
    ELSE IF BulkMatches(members, text)
    THEN [rec EXCEPT !.state = "CONFIRMED", !.received = text]
    ELSE [rec EXCEPT !.state = "REJECTED_MISMATCH", !.received = text]


\* Variant: one reply settles every pending record it matches.
ApplyReplyToAll(g, r, text) ==
    [x \in Resources |->
        IF x = r THEN EvaluateReply(g[x], x, text)
        ELSE IF g[x].state = "PROPOSED" /\ Matches(g[x].cls, x, text)
        THEN [g[x] EXCEPT !.state = "CONFIRMED", !.received = text]
        ELSE g[x]]

\* A reply reaches the record of the resource being processed and no other.
ApplyReply(g, r, text) == [g EXCEPT ![r] = EvaluateReply(g[r], r, text)]


\* Variant: a token consumed earlier is replayed for the new record.
PresentedWithReplay(rec, r, last) ==
    IF last \in RequiredTokens(rec.cls, r)
    THEN [rec EXCEPT !.state = "CONFIRMED", !.received = last]
    ELSE [rec EXCEPT !.state = "AWAITING_CONFIRMATION"]

\* A newly proposed record starts its own cycle, whatever was confirmed before.
Presented(rec, r, last) == [rec EXCEPT !.state = "AWAITING_CONFIRMATION"]

\* ------------------------------------------------------------- operations
\* DELETE SECTION: a delete/terminate request for a set of resources; the
\* two deletion methods are offered.  calls holds the calls issued for the
\* operation requested, starting empty with each request.
RequestDelete(S, cls) ==
    /\ mode = "idle"
    /\ S # {} /\ S \subseteq alive
    /\ cls \in DeleteEquivalent
    /\ mode' = "choose"
    /\ batch' = S
    /\ queue' = <<>>
    /\ gate' = [r \in Resources |-> IF r \in S THEN Proposed(cls) ELSE NoRecord]
    /\ bulkGate' = [NoBulk EXCEPT !.state = "PROPOSED", !.cls = cls]
    /\ calls' = {}
    /\ UNCHANGED <<alive, consumed>>
    /\ UNCHANGED outsideGate

\* "BULK DELETE" selects the bulk workflow; anything else is processed as
\* sequential individual deletions.
ChooseMethod(text) ==
    /\ mode = "choose"
    /\ IF text = BULK_DELETE_TEXT
       THEN /\ mode' = "bulk"
            /\ bulkGate' = [bulkGate EXCEPT !.state = "AWAITING_CONFIRMATION"]
            /\ gate' = [r \in Resources |-> NoRecord]
            /\ queue' = <<>>
       ELSE /\ mode' = "individual"
            /\ bulkGate' = NoBulk
            /\ gate' = gate
            /\ queue' = SeqOfSet(batch)
    /\ UNCHANGED <<alive, batch, calls, consumed>>
    /\ UNCHANGED outsideGate

\* CREATE / UPDATE / STATE CHANGE sections: one resource, one record.
RequestGated(cls, r) ==
    /\ mode = "idle"
    /\ cls \in Gated \ DeleteEquivalent
    /\ IF cls = "MUTATE_CREATE" THEN r \notin alive ELSE r \in alive
    /\ mode' = "individual"
    /\ batch' = {r}
    /\ queue' = <<r>>
    /\ gate' = [x \in Resources |-> IF x = r THEN Proposed(cls) ELSE NoRecord]
    /\ calls' = {}
    /\ UNCHANGED <<alive, bulkGate, consumed>>
    /\ UNCHANGED outsideGate

\* The resource at the head of the queue is presented in full and its
\* confirmation is requested.
Present ==
    /\ mode = "individual"
    /\ queue # <<>>
    /\ gate[Head(queue)].state = "PROPOSED"
    /\ gate' = [gate EXCEPT ![Head(queue)] =
                    Presented(gate[Head(queue)], Head(queue), consumed)]
    /\ UNCHANGED <<alive, mode, batch, queue, bulkGate, calls, consumed>>
    /\ UNCHANGED outsideGate

Reply(text) ==
    /\ mode = "individual"
    /\ queue # <<>>
    /\ gate[Head(queue)].state = "AWAITING_CONFIRMATION"
    /\ text \in RepliesFor(gate[Head(queue)].cls, Head(queue))
    /\ gate' = ApplyReply(gate, Head(queue), text)
    /\ UNCHANGED <<alive, mode, batch, queue, bulkGate, calls, consumed>>
    /\ UNCHANGED outsideGate

BulkReply(text) ==
    /\ mode = "bulk"
    /\ bulkGate.state = "AWAITING_CONFIRMATION"
    /\ bulkGate' = EvaluateBulkReply(bulkGate, batch, text)
    /\ UNCHANGED <<alive, mode, batch, queue, gate, calls, consumed>>
    /\ UNCHANGED outsideGate

\* "Display error and request retry": the required token is shown again.
Reoffer ==
    /\ mode = "individual"
    /\ queue # <<>>
    /\ gate[Head(queue)].state \in {"REJECTED_MISMATCH", "CANCELLED"}
    /\ gate' = [gate EXCEPT ![Head(queue)].state = "AWAITING_CONFIRMATION",
                            ![Head(queue)].received = NoText]
    /\ UNCHANGED <<alive, mode, batch, queue, bulkGate, calls, consumed>>
    /\ UNCHANGED outsideGate

BulkReoffer ==
    /\ mode = "bulk"
    /\ bulkGate.state \in {"REJECTED_MISMATCH", "CANCELLED"}
    /\ bulkGate' = [bulkGate EXCEPT !.state = "AWAITING_CONFIRMATION",
                                    !.received = NoText]
    /\ UNCHANGED <<alive, mode, batch, queue, gate, calls, consumed>>
    /\ UNCHANGED outsideGate

\* The user drops the pending request: every pending record is discarded.
Abandon ==
    /\ \/ mode = "choose"
       \/ mode = "bulk" /\ bulkGate.state \in {"REJECTED_MISMATCH", "CANCELLED"}
       \/ /\ mode = "individual" /\ queue # <<>>
          /\ gate[Head(queue)].state \in {"REJECTED_MISMATCH", "CANCELLED"}
    /\ mode' = "idle"
    /\ batch' = {}
    /\ queue' = <<>>
    /\ gate' = [r \in Resources |-> NoRecord]
    /\ bulkGate' = NoBulk
    /\ UNCHANGED <<alive, calls, consumed>>
    /\ UNCHANGED outsideGate

AliveAfter(cls, r) ==
    IF cls \in DeleteEquivalent THEN alive \ {r}
    ELSE IF cls = "MUTATE_CREATE" THEN alive \cup {r}
    ELSE alive


\* Variant: the head of the queue is dispatched whether confirmed or not.
DispatchUnconfirmed(tool) ==
    /\ mode = "individual"
    /\ queue # <<>>
    /\ gate[Head(queue)].state \in {"AWAITING_CONFIRMATION", "CONFIRMED"}
    /\ LET r == Head(queue)
           cls == gate[r].cls
       IN /\ calls' = calls \cup {Call(cls, r, tool)}
          /\ alive' = AliveAfter(cls, r)
          /\ consumed' = gate[r].received
          /\ gate' = [gate EXCEPT ![r] = NoRecord]
          /\ queue' = Tail(queue)
          /\ batch' = batch \ {r}
          /\ mode' = IF Tail(queue) = <<>> THEN "idle" ELSE "individual"
    /\ UNCHANGED bulkGate
    /\ UNCHANGED outsideGate

\* A confirmed operation is dispatched through the routed tool, one
\* resource at a time; its record is consumed.
Dispatch(tool) ==
    /\ mode = "individual"
    /\ queue # <<>>
    /\ gate[Head(queue)].state = "CONFIRMED"
    /\ LET r == Head(queue)
           cls == gate[r].cls
       IN /\ calls' = calls \cup {Call(cls, r, tool)}
          /\ alive' = AliveAfter(cls, r)
          /\ consumed' = gate[r].received
          /\ gate' = [gate EXCEPT ![r] = NoRecord]
          /\ queue' = Tail(queue)
          /\ batch' = batch \ {r}
          /\ mode' = IF Tail(queue) = <<>> THEN "idle" ELSE "individual"
    /\ UNCHANGED bulkGate
    /\ UNCHANGED outsideGate

BulkDispatch(tool) ==
    /\ mode = "bulk"
    /\ bulkGate.state = "CONFIRMED"
    /\ calls' = calls \cup {Call(bulkGate.cls, r, tool) : r \in batch}
    /\ alive' = alive \ batch
    /\ consumed' = bulkGate.received
    /\ bulkGate' = NoBulk
    /\ batch' = {}
    /\ mode' = "idle"
    /\ UNCHANGED <<queue, gate>>
    /\ UNCHANGED outsideGate

\* READ, COST, DOC and DIAGRAM requests need no confirmation.
RequestUngated(cls, tool) ==
    /\ mode = "idle"
    /\ cls \in Ungated
    /\ calls' = IF cls = "DIAGRAM_ANALYSIS"
                THEN {Call("READ", 0, tool), Call(cls, 0, tool)}
                ELSE {Call(cls, 0, tool)}
    /\ UNCHANGED <<alive, mode, batch, queue, gate, bulkGate, consumed>>
    /\ UNCHANGED outsideGate

Next ==
    \/ \E S \in SUBSET Resources, cls \in DeleteEquivalent :
          RequestDelete(S, cls)
    \/ \E text \in GenericReplies \cup BulkReplies : ChooseMethod(text)
    \/ \E cls \in Gated, r \in Resources : RequestGated(cls, r)
    \/ Present
    \/ \E text \in GenericReplies \cup UNION {NearTokens(v, NameOf(r)) :
            v \in {DELETE_WORD, STOP_WORD, TERMINATE_WORD}, r \in Resources} :
          Reply(text)
    \/ \E text \in GenericReplies \cup BulkReplies : BulkReply(text)
    \/ Reoffer
    \/ BulkReoffer
    \/ Abandon
    \/ \E tool \in Capability : Dispatch(tool)
    \/ \E tool \in Capability : BulkDispatch(tool)
    \/ \E cls \in Ungated, tool \in Capability : RequestUngated(cls, tool)

Spec == Init /\ [][Next]_allVars

TypeOK ==
    /\ alive \subseteq Resources
    /\ mode \in {"idle", "choose", "bulk", "individual"}
    /\ batch \subseteq Resources
    /\ \A r \in Resources : gate[r].state \in GateStates
    /\ bulkGate.state \in GateStates

\* ------------------------------------------------------------ properties
BecomesConfirmed(r) ==
    gate'[r].state = "CONFIRMED" /\ gate[r].state # "CONFIRMED"

DestructiveCallsIssued == {c \in calls' \ calls : c.cls \in Destructive}

DeletedInStep == alive \ alive'

DiffersOnlyInCase(text, t) == text # t /\ UpperCase(text) = UpperCase(t)
IsProperPrefix(a, b) == Len(a) < Len(b) /\ SubSeq(b, 1, Len(a)) = a
IsProperSuffix(a, b) ==
    Len(a) < Len(b) /\ SubSeq(b, Len(b) - Len(a) + 1, Len(b)) = a

NearMiss(text, t) ==
    \/ DiffersOnlyInCase(text, t)
    \/ IsProperPrefix(text, t)
    \/ IsProperPrefix(t, text)
    \/ IsProperSuffix(t, text)

\* C2: for a delete-equivalent or STOP record that has received a reply,
\* the record is CONFIRMED only if the reply equals a required token
\* exactly, and a reply that differs from a required token only in letter
\* case, that lacks its end, or that carries text before or after it has
\* put the record in REJECTED_MISMATCH.
C2_ExactCaseSensitiveMatch ==
    \A r \in Resources :
        gate[r].cls \in Destructive /\ gate[r].received # NoText =>
            /\ gate[r].state = "CONFIRMED" =>
                   gate[r].received \in RequiredTokens(gate[r].cls, r)
            /\ (\E t \in RequiredTokens(gate[r].cls, r) :
                    NearMiss(gate[r].received, t))
               /\ gate[r].received \notin RequiredTokens(gate[r].cls, r)
                   => gate[r].state = "REJECTED_MISMATCH"

C2_Witness ==
    /\ gate[1].cls = "MUTATE_DELETE"
    /\ gate[1].state = "REJECTED_MISMATCH"
    /\ gate[1].received = LowerCase(DELETE_WORD) \o SP \o NameOf(1)

C4_OneShotConfirmation ==
    [][ \A r \in Resources :
          /\ gate[r].state = "PROPOSED" =>
                /\ gate[r].received = NoText
                /\ gate'[r].state \in
                       {"PROPOSED", "AWAITING_CONFIRMATION", "NONE"}
          /\ BecomesConfirmed(r) =>
                /\ gate[r].state = "AWAITING_CONFIRMATION"
                /\ gate[r].received = NoText
                /\ gate'[r].received # NoText
          /\ gate[r].state = "CONFIRMED" /\ gate'[r] # gate[r] =>
                gate'[r] = NoRecord ]_vars

C4_Witness ==
    /\ 1 \notin alive
    /\ 3 \in alive
    /\ consumed = DeleteToken(1)
    /\ DeleteToken(1) = DeleteToken(3)
    /\ gate[3].cls = "MUTATE_DELETE"
    /\ gate[3].state = "AWAITING_CONFIRMATION"
    /\ gate[3].ack

BulkAckPassed == (\E r \in batch : TierOf(r) = "CRITICAL") => bulkGate.ack

\* C5: the record of a bulk batch of N resources is CONFIRMED only by the
\* reply "BULK DELETE N RESOURCES" with N the number of resources in the
\* batch; a reply with another count, in another letter case or in another
\* word form puts it in REJECTED_MISMATCH; and while the record is not
\* CONFIRMED the bulk workflow deletes nothing and issues no call.
C5_BulkCountExact ==
    /\ [](mode = "bulk" /\ bulkGate.received # NoText =>
            /\ bulkGate.state = "CONFIRMED" =>
                  bulkGate.received =
                      BULK_DELETE_TEXT \o SP \o Decimal(Cardinality(batch))
                          \o SP \o RESOURCES_WORD
            /\ bulkGate.received \in
                   (BulkReplies \ {BulkToken(Cardinality(batch))})
                   => bulkGate.state = "REJECTED_MISMATCH"
            /\ bulkGate.received = BulkToken(Cardinality(batch))
               /\ BulkAckPassed
                   => bulkGate.state = "CONFIRMED")
    /\ [][mode = "bulk" /\ bulkGate.state # "CONFIRMED" =>
            alive' = alive /\ calls' = calls]_vars

C5_Witness ==
    /\ mode = "bulk"
    /\ Cardinality(batch) = 3
    /\ bulkGate.ack
    /\ bulkGate.state = "REJECTED_MISMATCH"
    /\ bulkGate.received = BulkToken(2)

NewlyConfirmed == {r \in Resources : BecomesConfirmed(r)}

\* C6: one reply confirms at most one record, the record of the resource
\* being processed, and leaves every other pending record as it was; a
\* step of the individual workflow deletes at most the one resource whose
\* own record is CONFIRMED; several resources are deleted in one step only
\* by the bulk workflow with its own record CONFIRMED.
C6_GateScopedToOneResource ==
    [][ /\ Cardinality(NewlyConfirmed) <= 1
        /\ \A r \in NewlyConfirmed :
              /\ queue # <<>> /\ r = Head(queue)
              /\ \A x \in Resources \ {r} : gate'[x] = gate[x]
              /\ bulkGate' = bulkGate
        /\ (bulkGate'.state = "CONFIRMED" /\ bulkGate.state # "CONFIRMED")
              => gate' = gate
        /\ mode = "individual" =>
              /\ Cardinality(DeletedInStep) <= 1
              /\ \A r \in DeletedInStep : gate[r].state = "CONFIRMED"
        /\ Cardinality(DeletedInStep) > 1 =>
              /\ mode = "bulk"
              /\ bulkGate.state = "CONFIRMED"
              /\ DeletedInStep = batch ]_vars

C6_Witness ==
    /\ mode = "individual"
    /\ queue = <<1, 3>>
    /\ gate[1].state = "CONFIRMED"
    /\ gate[1].received \in RequiredTokens(gate[3].cls, 3)
    /\ gate[3].state = "PROPOSED"

C9_NoReadOnlyCallForMutation ==
    \A c \in calls : c.cls \in MutationClasses => c.cap # "use_aws"

C9_Witness ==
    \E c \in calls :
        c.cls = "MUTATE_CREATE" /\ c.violation /\ c.cap = "create_resource"

\* C10: no call issued for a state change (start, reboot, stop, terminate),
\* a create, an update or a delete goes through use_aws.
C10_NoReadOnlyCallForStateChange ==
    \A c \in calls :
        c.cls \in MutationClasses \cup
                  {"STATE_CHANGE_LOW", "STATE_CHANGE_MEDIUM", "STATE_CHANGE_HIGH"}
            => c.cap # "use_aws"

\* ------------------------------------------------------ region resolution
\* The region every AWS call of a turn carries.
Regions == {"us-east-1", "us-west-2", "eu-central-1"}
Services == {"ec2", "s3", "rds"}
DEFAULT_REGION == "us-east-1"

outsideRegion ==
    <<vars, planVars, createVars, retryVars, deleteVars, startupVars,
      runtimeVars, sessionIdVars,
      tierVars,
      cacheVars,
      chatVars,
      frontendVars>>

\* os.environ.get('AWS_REGION', 'us-east-1')
ResolveFromEnvironment(env) == IF env = "NOT_SET" THEN DEFAULT_REGION ELSE env

\* "EVERY SINGLE use_aws tool call MUST include --region
\* {RESOLVED_AWS_REGION}"; any other region is a critical violation.
EnforcedRegion == RESOLVED_AWS_REGION

\* "Region resolution priority: 1) User-specified region, 2) AWS_REGION
\* environment variable, 3) us-east-1 default".
PriorityRegion(user) ==
    IF user \in Regions THEN user ELSE RESOLVED_AWS_REGION

\* The regions the prompt instructs for a call of the turn: both rules are
\* stated as mandatory, and they name different regions when the user asks
\* for a region other than the configured one.
InstructedRegions(user) == {EnforcedRegion, PriorityRegion(user)}

\* Module import: the region is resolved once, from the environment.
ImportAgent(env) ==
    /\ RESOLVED_AWS_REGION = "UNSET"
    /\ RESOLVED_AWS_REGION' = ResolveFromEnvironment(env)
    /\ UNCHANGED <<userRegion, regionCalls>>
    /\ UNCHANGED outsideRegion

\* A user request, with or without a region named in it.
BeginTurn(user) ==
    /\ RESOLVED_AWS_REGION # "UNSET"
    /\ userRegion' = user
    /\ regionCalls' = {}
    /\ UNCHANGED RESOLVED_AWS_REGION
    /\ UNCHANGED outsideRegion

\* One use_aws read of the turn.
UseAws(service, region) ==
    /\ userRegion # "NO_TURN"
    /\ region \in InstructedRegions(userRegion)
    /\ regionCalls' = regionCalls \cup {[service |-> service, region |-> region]}
    /\ UNCHANGED <<RESOLVED_AWS_REGION, userRegion>>
    /\ UNCHANGED outsideRegion

RegionNext ==
    \/ \E env \in Regions \cup {"NOT_SET"} : ImportAgent(env)
    \/ \E user \in Regions \cup {"NONE"} : BeginTurn(user)
    \/ \E service \in Services, region \in Regions : UseAws(service, region)

SpecRegion == Init /\ [][RegionNext]_allVars

\* C11: every dispatch of a turn carries the region resolved by the priority
\* user-specified > environment-configured > fixed default: the configured
\* region when the request names none, and the user's region, never the
\* configured one, when the request names one.
C11_RegionPriority ==
    \A c \in regionCalls :
        /\ userRegion = "NONE" => c.region = RESOLVED_AWS_REGION
        /\ userRegion \in Regions => c.region = userRegion

\* ------------------------------------------------- multi-task requests
\* A request is the sequence of its action verbs, whether it is written as
\* a bullet or numbered list, and its estimated total execution time.
ReadVerbs == {"list", "scan"}
WriteVerbs == {"create", "enable"}
Estimates == {20, 90, 120}
SplitThreshold == 90
MinDistinctOperations == 3
ChunkSize == 2

outsidePlan ==
    <<vars, regionVars, createVars, retryVars, deleteVars, startupVars,
      runtimeVars, sessionIdVars,
      tierVars,
      cacheVars,
      chatVars,
      frontendVars>>

Requests ==
    UNION {[verbs : [1..n -> ReadVerbs \cup WriteVerbs], list : BOOLEAN,
            estimate : Estimates] : n \in 1..MaxTasks}

\* TASK GROUPING STRATEGY: quick reads, scans, writes.
GroupOf(verb) ==
    CASE verb = "list" -> 1
      [] verb = "scan" -> 2
      [] OTHER -> 3

\* MULTI-TASK DETECTION, one definition per bullet.
ManyOperations(req) ==
    Cardinality({req.verbs[i] : i \in DOMAIN req.verbs}) >= MinDistinctOperations
ListFormatted(req) == req.list /\ Len(req.verbs) >= 2
MixesReadAndWrite(req) ==
    /\ \E i \in DOMAIN req.verbs : req.verbs[i] \in ReadVerbs
    /\ \E i \in DOMAIN req.verbs : req.verbs[i] \in WriteVerbs
LongRunning(req) == req.estimate > SplitThreshold

DetectedWithoutMix(req) ==
    ManyOperations(req) \/ ListFormatted(req) \/ LongRunning(req)

MultiTaskDetected(req) ==
    \/ ManyOperations(req)
    \/ ListFormatted(req)
    \/ MixesReadAndWrite(req)
    \/ LongRunning(req)

\* The tasks of one group, in request order.
TasksOfGroup(req, g) ==
    SelectSeq([i \in DOMAIN req.verbs |-> i],
              LAMBDA i : GroupOf(req.verbs[i]) = g)

PriorityOrder(req) ==
    TasksOfGroup(req, 1) \o TasksOfGroup(req, 2) \o TasksOfGroup(req, 3)

Smallest(S) == CHOOSE x \in S : \A y \in S : x <= y

FirstPassAnyTask(req) ==
    SubSeq(PriorityOrder(req), 1, Smallest({ChunkSize, Len(req.verbs)}))

\* HANDLING PROTOCOL 3 and 7: the first one or two tasks, reads only, and
\* never all the tasks of a request estimated above the threshold.
FirstPass(req) ==
    LET reads == TasksOfGroup(req, 1) \o TasksOfGroup(req, 2)
        cap == IF LongRunning(req) THEN Len(req.verbs) - 1 ELSE Len(req.verbs)
    IN  SubSeq(reads, 1, Smallest({ChunkSize, Len(reads), cap}))

InSeq(x, s) == \E i \in DOMAIN s : s[i] = x

\* The tasks still to run, in priority order.
Remaining(req, done) ==
    SelectSeq(PriorityOrder(req), LAMBDA i : ~InSeq(i, done))

\* A request arrives and is analysed.
Receive ==
    /\ planPhase = "idle"
    /\ \E req \in Requests :
          /\ request' = req
          /\ multiTask' = MultiTaskDetected(req)
          /\ planPhase' = IF MultiTaskDetected(req)
                          THEN "first_pass" ELSE "direct"
    /\ dispatched' = <<>>
    /\ presented' = FALSE
    /\ continuation' = {}
    /\ planTurn' = 1
    /\ UNCHANGED outsidePlan

\* A request that is not multi-task runs as one operation of its section.
DispatchDirect ==
    /\ planPhase = "direct"
    /\ dispatched' = Append(dispatched, Head(Remaining(request, dispatched)))
    /\ planPhase' = IF Len(dispatched') = Len(request.verbs)
                    THEN "done" ELSE "direct"
    /\ UNCHANGED <<request, multiTask, presented, continuation, planTurn>>
    /\ UNCHANGED outsidePlan

\* One task of the first pass.
DispatchFirstPass ==
    /\ planPhase = "first_pass"
    /\ Len(dispatched) < Len(FirstPass(request))
    /\ dispatched' = Append(dispatched, FirstPass(request)[Len(dispatched) + 1])
    /\ UNCHANGED <<request, multiTask, planPhase, presented, continuation,
                   planTurn>>
    /\ UNCHANGED outsidePlan

\* HANDLING PROTOCOL 4-6: results of the completed tasks, then the question
\* "Continue with remaining tasks?", then wait.
PauseAndAsk ==
    /\ planPhase = "first_pass"
    /\ Len(dispatched) = Len(FirstPass(request))
    /\ presented' = TRUE
    /\ planPhase' = IF Remaining(request, dispatched) = <<>>
                    THEN "done" ELSE "paused"
    /\ UNCHANGED <<request, multiTask, dispatched, continuation, planTurn>>
    /\ UNCHANGED outsidePlan

\* The user's next message: 'yes' selects every remaining task, a list of
\* tasks selects those, anything else selects none.
Continue ==
    /\ planPhase = "paused"
    /\ \E selected \in
            SUBSET {i \in DOMAIN request.verbs : ~InSeq(i, dispatched)} :
          /\ continuation' = selected
          /\ planPhase' = IF selected = {} THEN "done" ELSE "continuing"
    /\ planTurn' = planTurn + 1
    /\ UNCHANGED <<request, multiTask, dispatched, presented>>
    /\ UNCHANGED outsidePlan

\* One selected task after the continuation.
DispatchSelected ==
    /\ planPhase = "continuing"
    /\ LET todo == SelectSeq(Remaining(request, dispatched),
                             LAMBDA i : i \in continuation)
       IN  /\ dispatched' = Append(dispatched, Head(todo))
           /\ planPhase' = IF Len(todo) = 1 THEN "done" ELSE "continuing"
    /\ UNCHANGED <<request, multiTask, presented, continuation, planTurn>>
    /\ UNCHANGED outsidePlan

\* The request is finished; the next one starts afresh.
EndOfRequest ==
    /\ planPhase = "done"
    /\ request' = [verbs |-> <<>>, list |-> FALSE, estimate |-> 0]
    /\ multiTask' = FALSE
    /\ planPhase' = "idle"
    /\ dispatched' = <<>>
    /\ presented' = FALSE
    /\ continuation' = {}
    /\ planTurn' = 0
    /\ UNCHANGED outsidePlan

PlanNext ==
    \/ Receive
    \/ EndOfRequest
    \/ DispatchDirect
    \/ DispatchFirstPass
    \/ PauseAndAsk
    \/ Continue
    \/ DispatchSelected

SpecPlan == Init /\ [][PlanNext]_allVars

\* The request under analysis, in the words of the detection rule.
DistinctVerbCount == Cardinality({request.verbs[i] : i \in DOMAIN request.verbs})
HasReadVerb == \E i \in DOMAIN request.verbs : request.verbs[i] \in ReadVerbs
HasWriteVerb == \E i \in DOMAIN request.verbs : request.verbs[i] \in WriteVerbs
SomeConditionHolds ==
    \/ DistinctVerbCount >= 3
    \/ request.list /\ Len(request.verbs) >= 2
    \/ HasReadVerb /\ HasWriteVerb
    \/ request.estimate > 90

\* C12 (as stated): splitting triggers exactly when at least one detection
\* condition holds; every request with 2 action verbs and 20 seconds
\* estimated does not trigger it, every request with 4 distinct verbs and
\* 120 seconds does.
C12_SplitExactlyOnCondition ==
    planPhase # "idle" =>
        /\ multiTask <=> SomeConditionHolds
        /\ DistinctVerbCount = 2 /\ request.estimate = 20 => ~multiTask
        /\ DistinctVerbCount = 4 /\ request.estimate = 120 => multiTask

\* C12 (amended): splitting triggers exactly when at least one detection
\* condition holds; a request with 2 action verbs of the same kind (both
\* reads or both writes), not written as a list, and 20 seconds estimated
\* does not trigger it, every request with 4 distinct verbs and 120 seconds
\* does.
C12_SplitOnConditionSameKind ==
    planPhase # "idle" =>
        /\ multiTask <=> SomeConditionHolds
        /\ ( /\ DistinctVerbCount = 2 /\ request.estimate = 20
             /\ ~request.list /\ ~(HasReadVerb /\ HasWriteVerb) ) => ~multiTask
        /\ DistinctVerbCount = 4 /\ request.estimate = 120 => multiTask

C12_Witness ==
    /\ planPhase = "done"
    /\ DistinctVerbCount = 2 /\ request.estimate = 20
    /\ ~request.list /\ ~multiTask
    /\ Len(dispatched) = Len(request.verbs)

Kinds == {"S3", "SecurityGroup", "EC2", "VPC", "Subnet"}

Prerequisites(k) ==
    CASE k = "EC2" -> {"SecurityGroup"}
      [] k = "Subnet" -> {"VPC"}
      [] OTHER -> {}

outsideCreate ==
    <<vars, regionVars, planVars, retryVars, deleteVars, startupVars,
      runtimeVars, sessionIdVars,
      tierVars,
      cacheVars,
      chatVars,
      frontendVars>>

\* An approved batch: the kinds to create, in the order the user listed them.
Batches ==
    UNION {{s \in [1..n -> Kinds] : \A i, j \in 1..n : i # j => s[i] # s[j]} :
           n \in 1..MaxBatch}

ReadyRegardless(status, k) == TRUE

\* "NEVER start dependent resources until prerequisites are confirmed ready":
\* the prerequisites that are part of the batch have completed.
Ready(status, k) ==
    \A p \in Prerequisites(k) \cap DOMAIN status : status[p] = "complete"

\* The resources of the list that can start now, in list order.
Startable(list, status) ==
    SelectSeq(list, LAMBDA k : status[k] = "queued" /\ Ready(status, k))

ApproveBatch ==
    /\ createList = <<>>
    /\ \E list \in Batches :
          /\ createList' = list
          /\ createStatus' = [k \in {list[i] : i \in DOMAIN list} |-> "queued"]
    /\ UNCHANGED outsideCreate

\* The executor starts the first resource of the list that is ready and
\* moves on without waiting for it.
StartCreate ==
    /\ Startable(createList, createStatus) # <<>>
    /\ createStatus' =
          [createStatus EXCEPT ![Head(Startable(createList, createStatus))] =
              "started"]
    /\ UNCHANGED createList
    /\ UNCHANGED outsideCreate

\* A started creation reports completion, or fails.
CreateEnds(k, outcome) ==
    /\ k \in DOMAIN createStatus
    /\ createStatus[k] = "started"
    /\ createStatus' = [createStatus EXCEPT ![k] = outcome]
    /\ UNCHANGED createList
    /\ UNCHANGED outsideCreate

\* Final summary: nothing is running and nothing more can start.
SummarizeBatch ==
    /\ createList # <<>>
    /\ Startable(createList, createStatus) = <<>>
    /\ \A k \in DOMAIN createStatus : createStatus[k] # "started"
    /\ createList' = <<>>
    /\ createStatus' = <<>>
    /\ UNCHANGED outsideCreate

CreateNext ==
    \/ ApproveBatch
    \/ StartCreate
    \/ \E k \in Kinds, outcome \in {"complete", "failed"} : CreateEnds(k, outcome)
    \/ SummarizeBatch

SpecCreate == Init /\ [][CreateNext]_allVars

\* C14: in an approved creation batch no resource is started before every
\* prerequisite of it that the batch declares has reported completion,
\* whatever the order of the input list.
C14_PrerequisitesComplete ==
    [][ \A k \in DOMAIN createStatus :
          ( /\ k \in DOMAIN createStatus'
            /\ createStatus[k] = "queued"
            /\ createStatus'[k] = "started" )
          => \A p \in DOMAIN createStatus :
                p \in Prerequisites(k) => createStatus[p] = "complete"
      ]_createVars

\* The list names the instance before its security group, and the instance
\* has started after the group completed.
C14_Witness ==
    /\ Len(createList) >= 2
    /\ createList[1] = "EC2"
    /\ "SecurityGroup" \in DOMAIN createStatus
    /\ createStatus["SecurityGroup"] = "complete"
    /\ createStatus["EC2"] = "started"

\* --------------------------------------------- create_resource retries
\* "Make UP TO THREE create_resource attempts with smart retry logic".
MaxCreateAttempts == 3
RetryWaitSeconds == 5
MaxRetrySeconds == 30

\* "Retry on" and "Do NOT retry on".
TransientErrors == {"5xx", "timeout", "429", "503"}
PermanentErrors == {"4xx", "invalid_parameters", "403", "409"}

\* How long one attempt can take before it answers, in seconds.
AttemptSeconds == {1, 10, 30}

outsideRetry ==
    <<vars, regionVars, planVars, createVars, deleteVars, startupVars,
      runtimeVars, sessionIdVars,
      tierVars,
      cacheVars,
      chatVars,
      frontendVars>>

RetryOnAnyError(error, made, sinceFirstFailure) ==
    /\ made < MaxCreateAttempts
    /\ sinceFirstFailure + RetryWaitSeconds <= MaxRetrySeconds

\* Whether another attempt follows a failure: the error is of the retried
\* kind, fewer than three attempts were made, and the wait before the next
\* attempt stays within the total retry time.
ShouldRetry(error, made, sinceFirstFailure) ==
    /\ error \in TransientErrors
    /\ made < MaxCreateAttempts
    /\ sinceFirstFailure + RetryWaitSeconds <= MaxRetrySeconds

\* The first create_resource attempt of a validated creation.
CallCreateResource ==
    /\ callState = "idle"
    /\ callState' = "in_flight"
    /\ attempts' = 1
    /\ UNCHANGED <<lastError, now, failedAt, retryingSince>>
    /\ UNCHANGED outsideRetry

AttemptSucceeds ==
    /\ callState = "in_flight"
    /\ \E d \in AttemptSeconds : now' = now + d
    /\ callState' = "created"
    /\ UNCHANGED <<attempts, lastError, failedAt, retryingSince>>
    /\ UNCHANGED outsideRetry

AttemptFails ==
    /\ callState = "in_flight"
    /\ \E d \in AttemptSeconds :
          /\ now' = now + d
          /\ failedAt' = now + d
          /\ retryingSince' = IF attempts = 1 THEN now + d ELSE retryingSince
    /\ \E error \in TransientErrors \cup PermanentErrors : lastError' = error
    /\ callState' = "failed"
    /\ UNCHANGED attempts
    /\ UNCHANGED outsideRetry

\* "Wait 5 seconds between attempts", then the next attempt.
Retry ==
    /\ callState = "failed"
    /\ ShouldRetry(lastError, attempts, now - retryingSince)
    /\ now' = now + RetryWaitSeconds
    /\ attempts' = attempts + 1
    /\ callState' = "in_flight"
    /\ UNCHANGED <<lastError, failedAt, retryingSince>>
    /\ UNCHANGED outsideRetry

\* "report detailed error and suggest specific fixes".
ReportError ==
    /\ callState = "failed"
    /\ ~ShouldRetry(lastError, attempts, now - retryingSince)
    /\ callState' = "reported"
    /\ UNCHANGED <<attempts, lastError, now, failedAt, retryingSince>>
    /\ UNCHANGED outsideRetry

\* The creation is over; the next one starts afresh.
EndOfCreation ==
    /\ callState \in {"created", "reported"}
    /\ attempts' = 0
    /\ lastError' = "none"
    /\ callState' = "idle"
    /\ now' = 0
    /\ failedAt' = 0
    /\ retryingSince' = 0
    /\ UNCHANGED outsideRetry

RetryNext ==
    \/ CallCreateResource
    \/ AttemptSucceeds
    \/ AttemptFails
    \/ Retry
    \/ ReportError
    \/ EndOfCreation

SpecRetry == Init /\ [][RetryNext]_allVars

StackManaged == {"EC2", "VPC"}

outsideDelete ==
    <<vars, regionVars, planVars, createVars, retryVars, startupVars,
      runtimeVars, sessionIdVars,
      tierVars,
      cacheVars,
      chatVars,
      frontendVars>>

\* "Delete dependent resources before their dependencies".
RECURSIVE DeletionOrder(_)
DeletionOrder(S) ==
    IF S = {} THEN <<>>
    ELSE LET free == {k \in S : ~\E d \in S : k \in Prerequisites(d)}
             k == CHOOSE x \in free : TRUE
         IN  <<k>> \o DeletionOrder(S \ {k})

Independent(a, b) == a \notin Prerequisites(b) /\ b \notin Prerequisites(a)

Resolved(status, k) == status[k] \in {"deleted", "skipped"}

\* Whether the agent moves on to resource k while earlier resource e is
\* where it is: "After each deletion, verify and report success before
\* proceeding", and "DELETE: Start deletion and move to next resource
\* immediately", which applies "to truly independent operations".
MayMoveOn(status, e, k) ==
    \/ Resolved(status, e)
    \/ status[e] = "deleting" /\ Independent(e, k)

\* A deletion request for several resources: they are ordered
\* automatically, or in the order the user insists on ("manual override
\* option for advanced users").
RequestDeletions ==
    /\ delQueue = <<>>
    /\ \E list \in Batches :
          /\ delQueue' \in {list, DeletionOrder({list[i] : i \in DOMAIN list})}
          /\ delStatus' = [k \in {list[i] : i \in DOMAIN list} |-> "queued"]
    /\ delCalls' = {}
    /\ UNCHANGED outsideDelete

\* The next resource of the queue is presented and its confirmation asked.
BeginConfirmation ==
    /\ \E j \in DOMAIN delQueue :
          /\ delStatus[delQueue[j]] = "queued"
          /\ \A i \in 1..(j - 1) :
                /\ delStatus[delQueue[i]] # "queued"
                /\ MayMoveOn(delStatus, delQueue[i], delQueue[j])
          /\ delStatus' = [delStatus EXCEPT ![delQueue[j]] = "confirming"]
    /\ \A k \in DOMAIN delStatus : delStatus[k] # "failed"
    /\ UNCHANGED <<delQueue, delCalls>>
    /\ UNCHANGED outsideDelete

\* The user typed the exact confirmation of the resource presented.
ConfirmDeletion(k) ==
    /\ k \in DOMAIN delStatus
    /\ delStatus[k] = "confirming"
    /\ delStatus' = [delStatus EXCEPT ![k] = "confirmed"]
    /\ UNCHANGED <<delQueue, delCalls>>
    /\ UNCHANGED outsideDelete

DeletionTool(k) ==
    IF k \in StackManaged THEN "delete_stack" ELSE "delete_resource"

DispatchDeletion(k) ==
    /\ k \in DOMAIN delStatus
    /\ delStatus[k] = "confirmed"
    /\ \A x \in DOMAIN delStatus : delStatus[x] # "failed"
    /\ delStatus' = [delStatus EXCEPT ![k] = "deleting"]
    /\ delCalls' = delCalls \cup {[target |-> k, tool |-> DeletionTool(k)]}
    /\ UNCHANGED delQueue
    /\ UNCHANGED outsideDelete

\* The deletion is verified complete, or it ends in a network/API error.
DeletionEnds(k, outcome) ==
    /\ k \in DOMAIN delStatus
    /\ delStatus[k] = "deleting"
    /\ delStatus' = [delStatus EXCEPT ![k] = outcome]
    /\ UNCHANGED <<delQueue, delCalls>>
    /\ UNCHANGED outsideDelete

\* "FALLBACK: Stack deletion failure -> Retry with individual resources".
FallbackToIndividual(k) ==
    /\ k \in DOMAIN delStatus
    /\ delStatus[k] = "failed"
    /\ [target |-> k, tool |-> "delete_stack"] \in delCalls
    /\ [target |-> k, tool |-> "delete_resource"] \notin delCalls
    /\ delStatus' = [delStatus EXCEPT ![k] = "deleting"]
    /\ delCalls' = delCalls \cup {[target |-> k, tool |-> "delete_resource"]}
    /\ UNCHANGED delQueue
    /\ UNCHANGED outsideDelete

\* After a reported failure the user skips the resource, or asks for it
\* again, which takes a fresh confirmation.
UserDirects(k, choice) ==
    /\ k \in DOMAIN delStatus
    /\ delStatus[k] = "failed"
    /\ [target |-> k, tool |-> "delete_resource"] \in delCalls
    /\ delStatus' = [delStatus EXCEPT ![k] = choice]
    /\ UNCHANGED <<delQueue, delCalls>>
    /\ UNCHANGED outsideDelete

\* "Provide option to cancel remaining deletions at any point", and the
\* end of a batch whose resources are all dealt with.
EndDeletions ==
    /\ delQueue # <<>>
    /\ \A k \in DOMAIN delStatus : delStatus[k] # "deleting"
    /\ delQueue' = <<>>
    /\ delStatus' = <<>>
    /\ delCalls' = {}
    /\ UNCHANGED outsideDelete

DeleteNext ==
    \/ RequestDeletions
    \/ BeginConfirmation
    \/ \E k \in Kinds : ConfirmDeletion(k)
    \/ \E k \in Kinds : DispatchDeletion(k)
    \/ \E k \in Kinds, outcome \in {"deleted", "failed"} : DeletionEnds(k, outcome)
    \/ \E k \in Kinds : FallbackToIndividual(k)
    \/ \E k \in Kinds, choice \in {"skipped", "confirming"} : UserDirects(k, choice)
    \/ EndDeletions

SpecDelete == Init /\ [][DeleteNext]_allVars

\* C15: queued deletions proceed one resource at a time in reverse
\* dependency order: the confirmation flow of a resource never begins before
\* the deletion of every resource ahead of it in the queue is confirmed
\* complete, and a resource is never deleted while a resource of the batch
\* that depends on it is still there.
C15_OneAtATimeReverseOrder ==
    /\ \A i, j \in DOMAIN delQueue :
          (i < j /\ delStatus[delQueue[j]] # "queued")
          => Resolved(delStatus, delQueue[i])
    /\ \A k, p \in DOMAIN delStatus :
          ( /\ p \in Prerequisites(k)
            /\ delStatus[p] \in {"deleting", "deleted", "failed"} )
          => Resolved(delStatus, k)

\* C17: once a confirmed destructive operation has ended in an error, no
\* destructive call is issued, for that resource or for a remaining one,
\* until the user has directed what to do with the failure.
C17_NoAutomaticRetry ==
    [][ (\E k \in DOMAIN delStatus : delStatus[k] = "failed")
        => delCalls' \subseteq delCalls ]_deleteVars

\* --------------------------------------------------- MCP client startup
\* Import of cloud_engineer_agent: the MCP clients are constructed and
\* started one after the other, then the agent is built from their tools.
\* environment.failing holds the clients whose start() raises.
ClientNames == {"cloudformation", "aws_docs", "cost_explorer", "aws_diagram"}

outsideStartup ==
    <<vars, regionVars, planVars, createVars, retryVars, deleteVars,
      runtimeVars, sessionIdVars,
      tierVars,
      cacheVars,
      chatVars,
      frontendVars>>

\* if 'cloudformation_mcp_client' not in globals(): the clients are
\* constructed for the platform detected.
ImportModule ==
    /\ pc = "not_imported"
    /\ \E platform \in {"win32", "linux"}, F \in SUBSET ClientNames :
          environment' = [platform |-> platform, failing |-> F]
    /\ clients' = [c \in ClientNames |-> "constructed"]
    /\ pc' = "start_cloudformation"
    /\ UNCHANGED mcp_initialized
    /\ UNCHANGED outsideStartup

\* try: client.start()  except Exception: client = None
StartedOrNone(c) == IF c \in environment.failing THEN "None" ELSE "started"

StartCloudFormation ==
    /\ pc = "start_cloudformation"
    /\ clients' = [clients EXCEPT !["cloudformation"] = StartedOrNone("cloudformation")]
    /\ pc' = "start_docs"
    /\ UNCHANGED <<environment, mcp_initialized>>
    /\ UNCHANGED outsideStartup

\* client.start() outside any inner try: an exception reaches the outer
\* handler, which prints troubleshooting tips and re-raises.
StartUnguarded(c, after) ==
    IF c \in environment.failing
    THEN pc' = "import_failed" /\ UNCHANGED clients
    ELSE pc' = after /\ clients' = [clients EXCEPT ![c] = "started"]

StartDocs ==
    /\ pc = "start_docs"
    /\ StartUnguarded("aws_docs", "start_cost_explorer")
    /\ UNCHANGED <<environment, mcp_initialized>>
    /\ UNCHANGED outsideStartup

StartCostExplorer ==
    /\ pc = "start_cost_explorer"
    /\ StartUnguarded("cost_explorer", "start_diagram")
    /\ UNCHANGED <<environment, mcp_initialized>>
    /\ UNCHANGED outsideStartup

StartDiagram ==
    /\ pc = "start_diagram"
    /\ clients' = [clients EXCEPT !["aws_diagram"] = StartedOrNone("aws_diagram")]
    /\ mcp_initialized' = TRUE
    /\ pc' = "build_agent"
    /\ UNCHANGED environment
    /\ UNCHANGED outsideStartup

\* The tools are listed and the agent is created.
BuildAgent ==
    /\ pc = "build_agent"
    /\ pc' = "ready"
    /\ UNCHANGED <<environment, clients, mcp_initialized>>
    /\ UNCHANGED outsideStartup

\* tools=[use_aws] + docs_tools + diagram_tools + cloudformation_tools +
\* cost_explorer_tools
AgentTools == {"use_aws"} \cup {c \in ClientNames : clients[c] = "started"}

get_detailed_mcp_status == [c \in ClientNames |-> clients[c] # "None"]

StartupNext ==
    \/ ImportModule
    \/ StartCloudFormation
    \/ StartDocs
    \/ StartCostExplorer
    \/ StartDiagram
    \/ BuildAgent

SpecStartup == Init /\ [][StartupNext]_allVars

\* C18: when exactly one MCP client fails to start, initialization is not
\* aborted, and once the agent is ready the failed capability alone is
\* reported unavailable and missing from the agent's tools.
C18_SingleFailureDegrades ==
    ( pc # "not_imported" /\ Cardinality(environment.failing) = 1 ) =>
        /\ pc # "import_failed"
        /\ pc = "ready" =>
              \A c \in ClientNames :
                  /\ get_detailed_mcp_status[c] <=> c \notin environment.failing
                  /\ c \in AgentTools <=> c \notin environment.failing

\* ------------------------------------------------------ runtime sessions
\* One process serves the requests of several sessions. The agent is a
\* module-level object: its conversation history (messages) is the only
\* conversation state there is, and the session id of a request is logged
\* and echoed, never handed to the agent.
MaxHistory == 4

SessionIds == {"A", "B"}

\* context.user_id of the requests of a session.
UserOf(session_id) == IF session_id = "A" THEN "user-1" ELSE "user-2"

PREDEFINED_TASKS == [ec2_status |-> "List all EC2 instances and their status"]

\* Payloads: dicts with or without a prompt or a task_key, a bare string,
\* and a value that is neither.
Payloads ==
    {[type |-> "dict", prompt |-> "", task_key |-> ""],
     [type |-> "dict", prompt |-> "list buckets", task_key |-> ""],
     [type |-> "dict", prompt |-> "", task_key |-> "ec2_status"],
     [type |-> "dict", prompt |-> "", task_key |-> "no_such_task"],
     [type |-> "str", prompt |-> "delete bucket", task_key |-> ""],
     [type |-> "str", prompt |-> "", task_key |-> ""],
     [type |-> "list", prompt |-> "", task_key |-> ""]}

outsideRuntime ==
    <<vars, regionVars, planVars, createVars, retryVars, deleteVars,
      startupVars, sessionIdVars, tierVars, cacheVars, chatVars,
      frontendVars>>

\* What the model is given on a call of the agent: the whole history.
ModelInput == messages

SessionsIn(history) == {history[i].session : i \in DOMAIN history}

\* raise ValueError: no task_key and no prompt in a dict, or a payload that
\* is neither a dict nor a str.
RaisesValueError(payload) ==
    \/ payload.type \notin {"dict", "str"}
    \/ payload.type = "dict" /\ payload.task_key = "" /\ payload.prompt = ""

\* execute_predefined_task returns an error text for a task key that is
\* not in PREDEFINED_TASKS, without calling the agent.
TaskNotFound(payload) ==
    /\ payload.type = "dict"
    /\ payload.task_key # ""
    /\ payload.task_key \notin DOMAIN PREDEFINED_TASKS

\* The text handed to the agent by execute_custom_task.
TaskDescription(payload) ==
    IF payload.type = "dict" /\ payload.task_key # ""
    THEN PREDEFINED_TASKS[payload.task_key]
    ELSE payload.prompt

\* The dict returned for the request of a session: has_error says whether
\* it has an 'error' field; outcome is how the request ended, and read the
\* sessions whose messages the agent was given (empty when it was not
\* called to the end).
Returned(session_id, has_error, message, outcome, read) ==
    [s \in DOMAIN response \cup {session_id} |->
        IF s = session_id
        THEN [session_id |-> session_id, user_id |-> UserOf(session_id),
              error |-> has_error, message |-> message,
              outcome |-> outcome, invoked |-> session_id \in running,
              read |-> read]
        ELSE response[s]]

\* handle_invocation up to the call of the agent.
handle_invocation(session_id, payload) ==
    /\ session_id \notin running
    /\ Len(messages) < MaxHistory
    /\ IF RaisesValueError(payload)
       THEN /\ response' = Returned(session_id, TRUE, "Invalid request",
                                    "invalid_payload", {})
            /\ UNCHANGED <<messages, running>>
       ELSE IF TaskNotFound(payload)
       THEN /\ response' = Returned(session_id, FALSE, "Error: Task not found",
                                    "task_not_found", {})
            /\ UNCHANGED <<messages, running>>
       ELSE /\ messages' =
                  Append(messages,
                         [session |-> session_id, role |-> "user",
                          text |-> TaskDescription(payload)])
            /\ running' = running \cup {session_id}
            /\ UNCHANGED response
    /\ UNCHANGED outsideRuntime

\* The agent's model call of a running request: it reads the history,
\* appends its answer to it, and the response echoes the session id.
AgentResponds(session_id) ==
    /\ session_id \in running
    /\ messages' =
          Append(messages,
                 [session |-> session_id, role |-> "assistant", text |-> "answer"])
    /\ response' = Returned(session_id, FALSE, "answer", "answered",
                            SessionsIn(ModelInput))
    /\ running' = running \ {session_id}
    /\ UNCHANGED outsideRuntime

\* The agent call raises: execute_custom_task catches the exception and
\* returns "Error executing task: ..." as the message, which
\* handle_invocation puts in its ordinary response.
AgentRaises(session_id) ==
    /\ session_id \in running
    /\ response' = Returned(session_id, FALSE, "Error executing task",
                            "agent_failed", {})
    /\ running' = running \ {session_id}
    /\ UNCHANGED messages
    /\ UNCHANGED outsideRuntime

\* The process is replaced: the module is imported again.
RestartProcess ==
    /\ running = {}
    /\ messages # <<>>
    /\ messages' = <<>>
    /\ response' = <<>>
    /\ UNCHANGED running
    /\ UNCHANGED outsideRuntime

RuntimeNext ==
    \/ \E s \in SessionIds, payload \in Payloads : handle_invocation(s, payload)
    \/ \E s \in SessionIds : AgentResponds(s)
    \/ \E s \in SessionIds : AgentRaises(s)
    \/ RestartProcess

SpecRuntime == Init /\ [][RuntimeNext]_allVars

\* C19: a turn executed for a session reads no conversation state of
\* another session: what the agent was given to answer a request holds
\* messages of the requesting session only.
C19_SessionsShareNothing ==
    \A s \in DOMAIN response : response[s].read \subseteq {s}

\* C29: a request whose payload is invalid or whose agent execution
\* failed is answered with a dict that has an 'error' field and the
\* session id and user id of the request's context, and for an invalid
\* payload the agent was not called.
C29_FailuresReturnedAsErrors ==
    \A s \in DOMAIN response :
        /\ response[s].outcome \in {"invalid_payload", "agent_failed"} =>
              /\ response[s].error
              /\ response[s].session_id = s
              /\ response[s].user_id = UserOf(s)
        /\ response[s].outcome = "invalid_payload" => ~response[s].invoked

\* ---------------------------------------------------- session identifiers
MAX_SESSION_ID_LENGTH == 128
DEFAULT_SESSION_NAME == <<"s","e","s","s","i","o","n">>

MaxIssued == 2
MaxClock == 2

\* Raw user ids and descriptions a caller passes; <<>> is the empty string
\* (or None, for the description).
UserIds == {<<>>, <<"u","1">>, <<"U","_","1">>, <<"u">>}
Descriptions == {<<>>, <<"1">>, <<"V","P","C"," ","!">>, <<".",".">>}
\* max_length: <<>> is None, <<n>> a limit of n characters.
MaxLengths == {<<>>, <<12>>}

outsideSessionId ==
    <<vars, regionVars, planVars, createVars, retryVars, deleteVars,
      startupVars, runtimeVars,
      tierVars,
      cacheVars,
      chatVars,
      frontendVars>>

\* str.replace(old, new) for single characters.
ReplaceChar(s, old, new) == [i \in 1..Len(s) |-> IF s[i] = old THEN new ELSE s[i]]

\* re.sub(r'[^a-z0-9.-]', '', s)
IsKept(c) ==
    \/ \E i \in 1..Len(LowerAlpha) : LowerAlpha[i] = c
    \/ \E i \in 1..Len(DigitChar) : DigitChar[i] = c
    \/ c \in {".", "-"}

\* re.sub(r'c+', 'c', s)
RECURSIVE Squeeze(_, _)
Squeeze(s, c) ==
    IF Len(s) < 2 THEN s
    ELSE IF s[1] = c /\ s[2] = c THEN Squeeze(Tail(s), c)
    ELSE <<s[1]>> \o Squeeze(Tail(s), c)

\* s.strip('-.')
RECURSIVE Strip(_)
Strip(s) ==
    IF s = <<>> THEN s
    ELSE IF s[1] \in {"-", "."} THEN Strip(Tail(s))
    ELSE IF s[Len(s)] \in {"-", "."} THEN Strip(SubSeq(s, 1, Len(s) - 1))
    ELSE s

sanitize_session_name(name) ==
    IF name = <<>> THEN DEFAULT_SESSION_NAME
    ELSE LET lowered == LowerCase(name)
             hyphened == ReplaceChar(ReplaceChar(lowered, " ", "-"), "_", "-")
             kept == SelectSeq(hyphened, IsKept)
             squeezed == Squeeze(Squeeze(kept, "-"), ".")
             stripped == Strip(squeezed)
         IN  IF stripped = <<>> THEN DEFAULT_SESSION_NAME ELSE stripped

TwoDigits(n) == IF n < 10 THEN <<"0">> \o Decimal(n) ELSE Decimal(n)

\* datetime.now().strftime('%Y%m%d-%H%M%S') at clock seconds after
\* 2025-01-15 14:30:00.
Timestamp(clock) ==
    <<"2","0","2","5","0","1","1","5","-","1","4">>
        \o TwoDigits(30 + (clock \div 60)) \o TwoDigits(clock % 60)

\* The id returned for a non-empty user id.
generate_session_id(user_id, description, include_timestamp, max_length, clock) ==
    LET user == sanitize_session_name(user_id)
        desc == IF description # <<>>
                THEN sanitize_session_name(description)
                ELSE DEFAULT_SESSION_NAME
        joined == IF include_timestamp
                  THEN user \o <<"-">> \o desc \o <<"-">> \o Timestamp(clock)
                  ELSE user \o <<"-">> \o desc
        limit == IF max_length = <<>> THEN MAX_SESSION_ID_LENGTH ELSE max_length[1]
    IN  IF Len(joined) > limit THEN SubSeq(joined, 1, limit) ELSE joined

\* A caller starts a session. An empty user id raises ValueError and no
\* session is started.
StartSession ==
    /\ Len(issued) < MaxIssued
    /\ \E user_id \in UserIds, description \in Descriptions,
          include_timestamp \in BOOLEAN, max_length \in MaxLengths :
          IF user_id = <<>>
          THEN UNCHANGED issued
          ELSE issued' =
                  Append(issued,
                         [user_id |-> user_id,
                          description |-> description,
                          id |-> generate_session_id(user_id, description,
                                     include_timestamp, max_length, wallClock)])
    /\ UNCHANGED wallClock
    /\ UNCHANGED outsideSessionId

\* A second passes.
Tick ==
    /\ wallClock < MaxClock
    /\ wallClock' = wallClock + 1
    /\ UNCHANGED issued
    /\ UNCHANGED outsideSessionId

SessionIdNext ==
    \/ StartSession
    \/ Tick

SpecSessionId == Init /\ [][SessionIdNext]_allVars

\* C20: the ids issued to distinct sessions are distinct.
C20_IssuedIdsDistinct ==
    \A i, j \in DOMAIN issued : i # j => issued[i].id # issued[j].id

\* ------------------------------------- classification and response sizing
\* A query is the set of trigger phrases it contains; each phrase stands
\* for the family the prompt lists with it ("delete" for delete, remove,
\* destroy; "existing" for analyze existing, current infrastructure, ...).
MaxPhrases == 3

Phrases ==
    {"best practices", "design", "existing", "audit", "full details",
     "more details", "create", "delete", "terminate", "stop", "costs", "list"}

Queries == {q \in SUBSET Phrases : Cardinality(q) <= MaxPhrases}

Tiers == {"TIER_1", "TIER_2", "TIER_3"}

\* The 9 sections of the TIER 3 MANDATORY RESPONSE FRAMEWORK.
FrameworkSections ==
    {"CURRENT STATE", "COST ANALYSIS", "SECURITY CONTEXT", "OPERATIONAL STATUS",
     "RESOURCE RELATIONSHIPS", "ANALYTICS & TRENDS", "RISKS & ISSUES",
     "OPTIMIZATION RECOMMENDATIONS", "ACTIONABLE NEXT STEPS"}

outsideTier ==
    <<vars, regionVars, planVars, createVars, retryVars, deleteVars,
      startupVars, runtimeVars, sessionIdVars,
      cacheVars,
      chatVars,
      frontendVars>>

\* The sections whose WHEN matches, apart from deletion.
OtherSections(q) ==
    {c \in OperationClass :
        \/ (c = "STATE_CHANGE_MEDIUM" /\ "stop" \in q)
        \/ (c = "MUTATE_CREATE" /\ "create" \in q)
        \/ (c = "DIAGRAM_DESIGN" /\ "design" \in q /\ "existing" \notin q)
        \/ (c = "DIAGRAM_ANALYSIS" /\ "design" \in q /\ "existing" \in q)
        \/ (c = "COST_QUERY" /\ "costs" \in q)
        \/ (c = "DOC_QUERY" /\ "best practices" \in q)
        \/ (c = "READ" /\ q \cap {"list", "audit", "existing"} # {})}

UnmatchedAsUpdate == {"MUTATE_UPDATE"}

\* What is left for a request no section matches: analysis through the
\* read tool and documentation search; a mutation takes an identified
\* operation type and its section.
Unmatched == {"READ", "DOC_QUERY"}

ClassesIgnoringDeletion(q) ==
    IF OtherSections(q) = {} THEN Unmatched ELSE OtherSections(q)

\* The operation types the prompt lets the agent identify for a query.
\* Deletion comes first ("Safety protocols ALWAYS override", "When in
\* doubt, DEFAULT TO SAFETY"), and terminate is "PERMANENT DELETION, not a
\* state change".
Classes(q) ==
    IF q \cap {"delete", "terminate"} # {}
    THEN {c \in DeleteEquivalent :
             \/ (c = "MUTATE_DELETE" /\ "delete" \in q)
             \/ (c = "STATE_CHANGE_HIGH" /\ "terminate" \in q)}
    ELSE ClassesIgnoringDeletion(q)

\* The tiers the sizing rules give a query: the DETECTION RULES and the
\* triggers listed under each tier, with TIER 2 the default when none
\* matches. No order is given among the rules.
InstructedTiers(q, cls) ==
    LET t1 == \/ "best practices" \in q
              \/ ("design" \in q /\ "existing" \notin q)
              \/ "list" \in q
        t2 == \/ "more details" \in q
              \/ "create" \in q
              \/ "costs" \in q
        t3 == \/ q \cap {"audit", "existing"} # {}
              \/ cls = "DIAGRAM_ANALYSIS"
              \/ "full details" \in q
        matched == {t \in Tiers : \/ (t = "TIER_1" /\ t1)
                                  \/ (t = "TIER_2" /\ t2)
                                  \/ (t = "TIER_3" /\ t3)}
    IN  IF matched = {} THEN {"TIER_2"} ELSE matched

OutlinesOfOneSection(t, cls) ==
    {[recommendations |-> 0, categories |-> 0, sections |-> {"CURRENT STATE"}]}

\* The shapes a response of a tier may take: the number of key takeaways,
\* the number of categories offered, and the framework sections applied.
\* For TIER 2 ("relevant sections ... (not all 9)") the single sections and
\* the sets leaving one section out are taken.
Outlines(t, cls) ==
    CASE t = "TIER_1" ->
           {[recommendations |-> r, categories |-> c, sections |-> {}] :
               r \in 5..10,
               c \in IF cls = "DIAGRAM_DESIGN" THEN 5..6 ELSE 6..8}
      [] t = "TIER_2" ->
           {[recommendations |-> 0, categories |-> 0, sections |-> S] :
               S \in {{s} : s \in FrameworkSections}
                     \cup {FrameworkSections \ {s} : s \in FrameworkSections}}
      [] OTHER ->
           {[recommendations |-> 0, categories |-> 0,
             sections |-> FrameworkSections]}

CostExplorerAnywhere(cls, t) == TRUE

\* Whether a turn of this class and tier may call the Cost Explorer MCP:
\* cost queries, and the cost analysis of existing resources; "Static
\* estimates during planning, Cost Explorer MCP only for dedicated analysis".
MayUseCostExplorer(cls, t) ==
    \/ cls = "COST_QUERY"
    \/ (cls \in {"READ", "DIAGRAM_ANALYSIS"} /\ t = "TIER_3")

\* The tools a turn calls before it answers or asks for confirmation.
ToolsOfTurn(cls, t) ==
    {S \in SUBSET Capability :
        /\ S \subseteq {"use_aws", "docs_mcp", "cost_explorer_mcp", "aws_diagram_mcp"}
        /\ "cost_explorer_mcp" \in S => MayUseCostExplorer(cls, t)
        /\ "aws_diagram_mcp" \in S <=> cls \in {"DIAGRAM_DESIGN", "DIAGRAM_ANALYSIS"}
        /\ "use_aws" \in S <=> cls \notin {"DIAGRAM_DESIGN", "DOC_QUERY", "COST_QUERY"}
        /\ "docs_mcp" \in S <=> cls \in {"DOC_QUERY", "MUTATE_CREATE"}}

\* A user turn arrives.
Ask ==
    /\ stage = "idle"
    /\ \E q \in Queries : query' = q
    /\ stage' = "asked"
    /\ UNCHANGED <<opClass, tier, outline, invoked>>
    /\ UNCHANGED outsideTier

\* "IDENTIFY OPERATION TYPE and state it explicitly".
Classify ==
    /\ stage = "asked"
    /\ \E c \in Classes(query) : opClass' = c
    /\ stage' = "classified"
    /\ UNCHANGED <<query, tier, outline, invoked>>
    /\ UNCHANGED outsideTier

select_tier ==
    /\ stage = "classified"
    /\ \E t \in InstructedTiers(query, opClass) : tier' = t
    /\ stage' = "sized"
    /\ UNCHANGED <<query, opClass, outline, invoked>>
    /\ UNCHANGED outsideTier

\* The agent gathers what the turn needs and writes its response (for a
\* mutation: the plan and the confirmation question).
Respond ==
    /\ stage = "sized"
    /\ \E o \in Outlines(tier, opClass) : outline' = o
    /\ \E S \in ToolsOfTurn(opClass, tier) : invoked' = S
    /\ stage' = "answered"
    /\ UNCHANGED <<query, opClass, tier>>
    /\ UNCHANGED outsideTier

EndTurn ==
    /\ stage = "answered"
    /\ query' = {}
    /\ opClass' = "NONE"
    /\ tier' = "NONE"
    /\ outline' = [recommendations |-> 0, categories |-> 0, sections |-> {}]
    /\ invoked' = {}
    /\ stage' = "idle"
    /\ UNCHANGED outsideTier

TierNext ==
    \/ Ask
    \/ Classify
    \/ select_tier
    \/ Respond
    \/ EndTurn

SpecTier == Init /\ [][TierNext]_allVars

\* C21: a request identified as a design request or as creation planning
\* is never given TIER_3, whatever else it says.
C21_NoTier3ForDesign ==
    ( stage \in {"sized", "answered"}
      /\ opClass \in {"DIAGRAM_DESIGN", "MUTATE_CREATE"} )
    => tier # "TIER_3"

IsDocQuery == opClass = "DOC_QUERY" /\ "best practices" \in query

IsAnalysisRequest ==
    /\ opClass \in {"READ", "DIAGRAM_ANALYSIS"}
    /\ query \cap {"audit", "existing"} # {}

Tier1Shape ==
    /\ tier = "TIER_1"
    /\ outline.recommendations >= 5 /\ outline.recommendations <= 10
    /\ outline.categories >= 6 /\ outline.categories <= 8
    /\ Cardinality(outline.sections) < 9

Tier3Shape ==
    /\ tier = "TIER_3"
    /\ Cardinality(outline.sections) = 9
    /\ outline.sections = FrameworkSections

Described == {"i-web", "vol-data"}
ResourceStates == {"running", "stopped"}

outsideCache ==
    <<vars, regionVars, planVars, createVars, retryVars, deleteVars,
      startupVars, runtimeVars, sessionIdVars, tierVars,
      chatVars,
      frontendVars>>

\* What the agent knows of resource r without calling use_aws: "Store
\* results of common use_aws describe calls within session", "Reuse cached
\* values for repeated references".
Cached(r) == cache[r]

\* A use_aws describe call: its result is stored.
Describe(r) ==
    /\ r \notin readThisTurn
    /\ cache' = [cache EXCEPT ![r] = actual[r]]
    /\ readThisTurn' = readThisTurn \cup {r}
    /\ UNCHANGED <<actual, confirmationPrompt>>
    /\ UNCHANGED outsideCache

\* The resource changes outside the session (console, another user, an
\* Auto Scaling action).
ChangesElsewhere(r, s) ==
    /\ actual[r] # s
    /\ actual' = [actual EXCEPT ![r] = s]
    /\ UNCHANGED <<cache, readThisTurn, confirmationPrompt>>
    /\ UNCHANGED outsideCache

\* The agent itself creates or modifies the resource: "Update cache only
\* when resource creation/modification occurs".
AgentModifies(r, s) ==
    /\ confirmationPrompt.target = "none"
    /\ actual[r] # s
    /\ actual' = [actual EXCEPT ![r] = s]
    /\ cache' = [cache EXCEPT ![r] = s]
    /\ UNCHANGED <<readThisTurn, confirmationPrompt>>
    /\ UNCHANGED outsideCache

\* The agent presents the resource and asks for its confirmation. The
\* state shown is read with use_aws ("Verify resource state"), or it is the
\* cached one when there is one.
PresentConfirmation(r) ==
    /\ confirmationPrompt.target = "none"
    /\ \E reuse \in BOOLEAN :
          /\ reuse => Cached(r) # "none"
          /\ IF reuse
             THEN /\ confirmationPrompt' =
                        [target |-> r, shown |-> Cached(r),
                         fresh |-> r \in readThisTurn]
                  /\ UNCHANGED <<cache, readThisTurn>>
             ELSE /\ confirmationPrompt' =
                        [target |-> r, shown |-> actual[r], fresh |-> TRUE]
                  /\ cache' = [cache EXCEPT ![r] = actual[r]]
                  /\ readThisTurn' = readThisTurn \cup {r}
    /\ UNCHANGED actual
    /\ UNCHANGED outsideCache

\* The user answers and the next turn begins.
NextTurn ==
    /\ readThisTurn' = {}
    /\ confirmationPrompt' = [target |-> "none", shown |-> "none", fresh |-> FALSE]
    /\ \/ readThisTurn # {}
       \/ confirmationPrompt.target # "none"
    /\ UNCHANGED <<actual, cache>>
    /\ UNCHANGED outsideCache

CacheNext ==
    \/ \E r \in Described : Describe(r)
    \/ \E r \in Described, s \in ResourceStates : ChangesElsewhere(r, s)
    \/ \E r \in Described, s \in ResourceStates : AgentModifies(r, s)
    \/ \E r \in Described : PresentConfirmation(r)
    \/ NextTurn

SpecCache == Init /\ [][CacheNext]_allVars

\* C24: a confirmation prompt is built from a read of the target made in
\* the same turn, never from data cached in an earlier turn.
C24_FreshReadBeforePrompt ==
    confirmationPrompt.target # "none" => confirmationPrompt.fresh

\* ------------------------------------------------------ Streamlit chat page
MaxChat == 6

\* Config.SUCCESS_MESSAGES
SUCCESS_MESSAGES ==
    [task_complete |-> "Task completed successfully",
     request_processed |-> "Your request has been processed successfully"]

\* What a turn runs into: the agent answers; the agent call raises inside
\* execute_custom_task; cleaning or displaying the response raises.
TurnOutcomes == {"answered", "agent_raises", "display_raises"}

outsideChat ==
    <<vars, regionVars, planVars, createVars, retryVars, deleteVars,
      startupVars, runtimeVars, sessionIdVars, tierVars, cacheVars,
      frontendVars>>

\* execute_custom_task: the response, or the text of the exception caught.
execute_custom_task(outcome) ==
    IF outcome = "agent_raises" THEN "Error executing task" ELSE "response"

\* The assistant message of the chat input handler: the cleaned response,
\* and the success message when the try block raised.
ChatInputMessage(outcome) ==
    IF outcome = "display_raises"
    THEN SUCCESS_MESSAGES.request_processed
    ELSE execute_custom_task(outcome)

\* The assistant message of the Run Selected Task handler.
SelectedTaskMessage(outcome) ==
    IF outcome = "display_raises"
    THEN SUCCESS_MESSAGES.task_complete
    ELSE execute_custom_task(outcome)

\* if prompt := st.chat_input(...)
ChatInput ==
    /\ Len(chatMessages) + 2 <= MaxChat
    /\ \E outcome \in TurnOutcomes :
          /\ chatMessages' =
                chatMessages
                \o << [role |-> "user", content |-> "prompt"],
                      [role |-> "assistant", content |-> ChatInputMessage(outcome)] >>
          /\ rendered' = ChatInputMessage(outcome)
          /\ turnFailed' = (outcome # "answered")
    /\ UNCHANGED outsideChat

\* if st.button("Run Selected Task")
RunSelectedTask ==
    /\ Len(chatMessages) + 2 <= MaxChat
    /\ \E outcome \in TurnOutcomes :
          /\ chatMessages' =
                chatMessages
                \o << [role |-> "user", content |-> "selected_task"],
                      [role |-> "assistant", content |-> SelectedTaskMessage(outcome)] >>
          /\ rendered' = SelectedTaskMessage(outcome)
          /\ turnFailed' = (outcome # "answered")
    /\ UNCHANGED outsideChat

\* Clear Chat
ClearChat ==
    /\ chatMessages # <<>>
    /\ chatMessages' = <<>>
    /\ rendered' = "nothing"
    /\ turnFailed' = FALSE
    /\ UNCHANGED outsideChat

ChatNext ==
    \/ ChatInput
    \/ RunSelectedTask
    \/ ClearChat

SpecChat == Init /\ [][ChatNext]_allVars

\* C28: after a turn that failed, the message rendered and appended to the
\* chat history reports the failure and is not a success message.
C28_FailureShownAsError ==
    turnFailed =>
        /\ rendered = "Error executing task"
        /\ chatMessages[Len(chatMessages)].content = "Error executing task"
        /\ rendered \notin {SUCCESS_MESSAGES.task_complete,
                            SUCCESS_MESSAGES.request_processed}

\* ------------------------------------------- authenticated front end
\* st.session_state of one browser session; <<>> stands for None and for a
\* key that is absent. sent is the last call of invoke_agent, and
\* generatedBy records, for each runtime session id generated, the user
\* logged in when it was generated.
MaxBrowserClock == 2
MaxFrontendMessages == 2

Usernames == {<<"a">>, <<"b">>}

MAIN_SESSION == <<"m","a","i","n","-","s","e","s","s","i","o","n">>
STREAMLIT_SESSION ==
    <<"s","t","r","e","a","m","l","i","t","-","s","e","s","s","i","o","n">>
ANONYMOUS == <<"a","n","o","n","y","m","o","u","s">>

outsideFrontend ==
    <<vars, regionVars, planVars, createVars, retryVars, deleteVars,
      startupVars, runtimeVars, sessionIdVars, tierVars, cacheVars, chatVars>>

\* session_manager.generate_session_id: the id is stored in the session
\* state.
StoreGeneratedId(state, description, clock) ==
    LET user_id == IF state.user_id = <<>> THEN ANONYMOUS ELSE state.user_id
        desc == IF description = <<>> THEN STREAMLIT_SESSION ELSE description
    IN  [state EXCEPT !.runtime_session_id =
             generate_session_id(user_id, desc, TRUE, <<>>, clock)]

\* The sidebar of show_main_app: a session id is generated when
\* get_current_session returns None.
show_main_app(state, clock) ==
    IF state.runtime_session_id = <<>>
    THEN StoreGeneratedId(state, MAIN_SESSION, clock)
    ELSE state

\* The script run that follows st.rerun().
main(state, clock) ==
    IF state.authenticated THEN show_main_app(state, clock) ELSE state

\* The ids a step generated, with the user logged in.
GeneratedIn(before, after) ==
    IF after.runtime_session_id # <<>>
       /\ after.runtime_session_id # before.runtime_session_id
    THEN {<<after.runtime_session_id, after.user_id>>}
    ELSE {}

\* The login form is submitted; valid says whether Cognito accepts the
\* credentials.
show_login_page ==
    /\ ~session_state.authenticated
    /\ \E username \in Usernames, valid \in BOOLEAN :
          IF valid
          THEN LET logged == [session_state EXCEPT !.authenticated = TRUE,
                                                   !.user_id = username,
                                                   !.access_token = username]
                   after == main(logged, browserClock)
               IN  /\ session_state' = after
                   /\ generatedBy' = generatedBy \cup GeneratedIn(logged, after)
          ELSE UNCHANGED <<session_state, generatedBy>>
    /\ UNCHANGED <<sent, browserClock>>
    /\ UNCHANGED outsideFrontend

NewSession ==
    /\ session_state.authenticated
    /\ LET cleared == [session_state EXCEPT !.runtime_session_id = <<>>,
                                            !.messages = <<>>]
           after == main(cleared, browserClock)
       IN  /\ session_state' = after
           /\ generatedBy' = generatedBy \cup GeneratedIn(cleared, after)
    /\ UNCHANGED <<sent, browserClock>>
    /\ UNCHANGED outsideFrontend

Logout ==
    /\ session_state.authenticated
    /\ session_state' =
          main([session_state EXCEPT !.authenticated = FALSE,
                                     !.user_id = <<>>,
                                     !.access_token = <<>>,
                                     !.messages = <<>>],
               browserClock)
    /\ UNCHANGED <<sent, browserClock, generatedBy>>
    /\ UNCHANGED outsideFrontend

\* execute_task(prompt=...): the request is sent with the current session
\* id and access token; failed says whether the response has an 'error'.
execute_task ==
    /\ session_state.authenticated
    /\ Len(session_state.messages) + 2 <= MaxFrontendMessages
    /\ \E failed \in BOOLEAN :
          LET asked == [session_state EXCEPT
                           !.messages = Append(@, [role |-> "user"])]
              withId == IF asked.runtime_session_id = <<>>
                        THEN StoreGeneratedId(asked, <<>>, browserClock)
                        ELSE asked
          IN  /\ sent' = [session_id |-> withId.runtime_session_id,
                          access_token |-> withId.access_token,
                          user_id |-> withId.user_id]
              /\ session_state' =
                    IF failed THEN withId
                    ELSE [withId EXCEPT
                             !.messages = Append(@, [role |-> "assistant"])]
              /\ generatedBy' = generatedBy \cup GeneratedIn(asked, withId)
    /\ UNCHANGED browserClock
    /\ UNCHANGED outsideFrontend

\* A second passes.
BrowserTick ==
    /\ browserClock < MaxBrowserClock
    /\ browserClock' = browserClock + 1
    /\ UNCHANGED <<session_state, sent, generatedBy>>
    /\ UNCHANGED outsideFrontend

FrontendNext ==
    \/ show_login_page
    \/ NewSession
    \/ Logout
    \/ execute_task
    \/ BrowserTick

SpecFrontend == Init /\ [][FrontendNext]_allVars

\* C30: a request sent for the logged-in user never carries a runtime
\* session id that was generated while a different user was logged in.
C30_SessionIdUsedByItsUser ==
    \A g \in generatedBy :
        g[1] = sent.session_id => g[2] = sent.user_id

====
